---- MODULE Spec2Model ----
(***************************************************************************)
(* Copy-trade monitoring loop of the Polymarket copy trading bot.          *)
(*                                                                         *)
(*   engine (function variant)  monitorAndCopyTrades, executeCopyTrade,    *)
(*                              adjustPriceForSlippage, tradeKey           *)
(*   api  (function variant)    getUserTrades, placeOrder,                 *)
(*                              getTradingClient                           *)
(*   bot.ts                     TradingBot.start / startMonitoring / stop  *)
(*                                                                         *)
(* JavaScript runs every continuation to completion: between two awaits    *)
(* that wait for the network nothing else runs.  The variable `running`    *)
(* names the invocation that holds the thread; while it is not 0 only that *)
(* invocation's steps are enabled, so the steps of one continuation are    *)
(* never interleaved with anything else.                                   *)
(*                                                                         *)
(* Numbers.  A JavaScript number is modelled as [nan, v]: NaN, or the      *)
(* integer v in a fixed unit.  Prices are in millionths (1.0 = ONE),       *)
(* sizes in hundredths of a share, slippageTolerance in tenths of a        *)
(* percent.  All inputs are chosen so that the divisions are exact.        *)
(***************************************************************************)
EXTENDS Integers, Sequences, FiniteSets, TLC

\* ------------------------------------------------------------------ bounds

\* Timer firings (invocations of monitorAndCopyTrades) in one run.
MaxTicks == 2
\* Rows in one page returned by the Data API.
MaxPage == 3
\* Rows returned by the Data API in one run, all pages together.
MaxRows == 3

\* The ceiling of the dedup set.  part_000:10 sets 10000; the model runs the
\* same code with a ceiling small enough for the overflow to happen in a run.
MAX_SEEN == 1

\* Timer firings (invocations of TradingEngine.monitorAndCopyTrades) in one run.
MaxPolls == 2
\* Trades in one page returned to TradingEngine.monitorAndCopyTrades.
MaxClassPage == 2
\* WebSocket objects created in one run.
MaxSockets == 3
\* Calls of addError in one run.
MaxErrors == 130

\* --------------------------------------------------------------- constants

\* placeOrder: price >= 1 is invalid; 1.0 in millionths.
ONE == 1000000
\* tokenId.length < 10 is invalid.
MinTokenLen == 10
\* PolymarketWSClient.maxReconnectAttempts.
maxReconnectAttempts == 10
\* config.tooOldTimestamp (TOO_OLD_TIMESTAMP), in seconds.
tooOldTimestamp == 3600
\* config.retryLimit (RETRY_LIMIT).
retryLimit == 3
\* PolymarketWSClient.reconnectDelay (5000 ms), in seconds.
reconnectDelay == 5
\* addError keeps the last 100 messages.
maxErrorLog == 100
\* TradingEngineConfig.minOrderSize as the bot sets it (1), in hundredths.
minOrderSize == 100

\* ----------------------------------------------------------------- numbers

NaN == [nan |-> TRUE, v |-> 0]
Num(x) == [nan |-> FALSE, v |-> x]

\* a <= b, a >= b, a < b of JavaScript: false as soon as one side is NaN.
NumLe(a, b) == ~a.nan /\ ~b.nan /\ a.v <= b.v
NumGe(a, b) == ~a.nan /\ ~b.nan /\ a.v >= b.v

\* a * (k / d) for plain positive integers k, d.
NumScale(a, k, d) == IF a.nan THEN NaN ELSE Num((a.v * k) \div d)
NumAdd(a, b) == IF a.nan \/ b.nan THEN NaN ELSE Num(a.v + b.v)
NumSub(a, b) == IF a.nan \/ b.nan THEN NaN ELSE Num(a.v - b.v)
\* Math.min / Math.max: NaN as soon as one argument is NaN.
MathMin(a, b) == IF a.nan \/ b.nan THEN NaN ELSE IF a.v <= b.v THEN a ELSE b
MathMax(a, b) == IF a.nan \/ b.nan THEN NaN ELSE IF a.v >= b.v THEN a ELSE b
\* `${n}` in a template string.
NumStr(a) == IF a.nan THEN "NaN" ELSE ToString(a.v)

\* ------------------------------------------------------------------ config

\* config.ts defaults: RISK_PERCENTAGE 2, MAX_POSITION_SIZE 1000,
\* SLIPPAGE_TOLERANCE 0.5 (5 tenths of a percent).
DefaultConfig == [riskPercentage |-> 2, maxPositionSize |-> 1000, slippageTolerance |-> 5]
Configs == {DefaultConfig}

\* ---------------------------------------------------------- the Data API

\* A numeric field of a remote row: a JSON number, a numeric string, a string
\* that is no number, or absent.
RawNum(x) == [t |-> "number", v |-> x]
RawStr(x) == [t |-> "string", v |-> x]
RawBad == [t |-> "garbage", v |-> 0]
RawNone == [t |-> "undefined", v |-> 0]

GoodAsset == "71321045679252212594626385532706912750332728571942532289631379312455583992563"

\* The rows the source trader's feed can hold.
Rows ==
  { [transactionHash |-> "0xa1", conditionId |-> "m1", asset |-> GoodAsset, side |-> "BUY",
     price |-> RawNum(400000), size |-> RawNum(5000), timestamp |-> 1],
    [transactionHash |-> "0xb2", conditionId |-> "m1", asset |-> GoodAsset, side |-> "sell",
     price |-> RawStr(600000), size |-> RawStr(500000), timestamp |-> 3],
    [transactionHash |-> "0xc3", conditionId |-> "m2", asset |-> "abc", side |-> "BUY",
     price |-> RawNum(500000), size |-> RawNum(1000), timestamp |-> 5],
    [transactionHash |-> "", conditionId |-> "m2", asset |-> GoodAsset, side |-> "BUY",
     price |-> RawNum(999000), size |-> RawNum(10000000), timestamp |-> 5],
    [transactionHash |-> "0xf6", conditionId |-> "m3", asset |-> GoodAsset, side |-> "BUY",
     price |-> RawBad, size |-> RawNum(5000), timestamp |-> 1],
    [transactionHash |-> "0xa7", conditionId |-> "m1", asset |-> GoodAsset, side |-> "BUY",
     price |-> RawNum(400000), size |-> RawNone, timestamp |-> 3] }

MaxOf(S) == CHOOSE x \in S : \A y \in S : y <= x

\* The clock, in seconds, when the process starts: every row of Rows is by
\* then more than tooOldTimestamp seconds old, and the clock only goes on.
StartedAt == MaxOf({r.timestamp : r \in Rows}) + tooOldTimestamp + 1

\* Sequences over S of length 0..n.
SeqUpTo(S, n) == UNION { [1..k -> S] : k \in 0..n }
\* The pages the Data API can return when `left` more rows fit in the run.
Pages(left) == SeqUpTo(Rows, IF left < MaxPage THEN left ELSE MaxPage)

\* typeof x === 'string' ? parseFloat(x) : Number(x ?? 0)
ParseNumber(x) ==
  CASE x.t = "string" -> Num(x.v)
    [] x.t = "garbage" -> NaN
    [] x.t = "number" -> Num(x.v)
    [] OTHER -> Num(0)

\* String(side ?? 'BUY').toUpperCase() === 'SELL' ? 'SELL' : 'BUY'
ParseSide(s) == IF s \in {"SELL", "sell", "Sell"} THEN "SELL" ELSE "BUY"

\* One row of getUserTrades' result.
MapRow(r) ==
  [orderId |-> r.transactionHash, marketId |-> r.conditionId, tokenId |-> r.asset,
   side |-> ParseSide(r.side), price |-> ParseNumber(r.price), size |-> ParseNumber(r.size),
   timestamp |-> r.timestamp]

\* rows.map(...)
getUserTrades(rows) == [i \in 1..Len(rows) |-> MapRow(rows[i])]

\* ----------------------------------------------------------------- engine

\* Mutant of the fallback key: the size is left out.
tradeKeyWithoutSize(t) ==
  IF t.orderId # "" THEN t.orderId
  ELSE t.marketId \o ":" \o t.tokenId \o ":" \o t.side \o ":" \o NumStr(t.price)
       \o ":" \o ToString(t.timestamp)

tradeKey(t) ==
  IF t.orderId # "" THEN t.orderId
  ELSE t.marketId \o ":" \o t.tokenId \o ":" \o t.side \o ":" \o NumStr(t.price)
       \o ":" \o NumStr(t.size) \o ":" \o ToString(t.timestamp)

\* Mutant of the window: there is none, every trade of the page is a candidate.
CandidatesUnfiltered(trades, mark) == trades

\* Mutant of the window: a trade at the mark itself is dropped.
CandidatesStrict(trades, mark) ==
  LET Keep(t) == t.timestamp > mark IN SelectSeq(trades, Keep)

\* const candidates = trades.filter(t => t.timestamp >= lastProcessedTimestamp)
Candidates(trades, mark) ==
  LET Keep(t) == t.timestamp >= mark IN SelectSeq(trades, Keep)

\* Mutants of the novelty check: the key is never added; the overflow evicts
\* one key instead of clearing.
IsNewNeverMarks(s, key) == [keep |-> key \notin s, seen |-> s, cleared |-> FALSE]

IsNewEvictsOne(s, key) ==
  IF key \in s THEN [keep |-> FALSE, seen |-> s, cleared |-> FALSE]
  ELSE IF Cardinality(s \cup {key}) > MAX_SEEN
       THEN [keep |-> TRUE, seen |-> (s \cup {key}) \ {CHOOSE x \in s : TRUE},
             cleared |-> FALSE]
       ELSE [keep |-> TRUE, seen |-> s \cup {key}, cleared |-> FALSE]

\* The callback of candidates.filter(...): the novelty check of one trade
\* against the set `s`.  keep: the callback's result; seen: the set afterwards;
\* cleared: whether seen.clear() ran.
IsNewAndMark(s, key) ==
  IF key \in s THEN [keep |-> FALSE, seen |-> s, cleared |-> FALSE]
  ELSE IF Cardinality(s \cup {key}) > MAX_SEEN
       THEN [keep |-> TRUE, seen |-> {}, cleared |-> TRUE]
       ELSE [keep |-> TRUE, seen |-> s \cup {key}, cleared |-> FALSE]

\* newTrades.sort((a, b) => a.timestamp - b.timestamp): stable, ascending.
\* Entries are [t |-> trade, epoch |-> ...]; Insert puts e after every entry
\* whose timestamp is not larger.
RECURSIVE Insert(_, _)
Insert(e, s) ==
  IF s = <<>> THEN <<e>>
  ELSE IF Head(s).t.timestamp - e.t.timestamp <= 0
       THEN <<Head(s)>> \o Insert(e, Tail(s))
       ELSE <<e>> \o s

\* Mutant of the sort: the feed's order is kept.
NoSort(s) == s

RECURSIVE SortByTimestamp(_)
SortByTimestamp(s) ==
  IF s = <<>> THEN <<>>
  ELSE Insert(s[Len(s)], SortByTimestamp(SubSeq(s, 1, Len(s) - 1)))

\* Mutant of the size: the cap is not applied.
ScaledSizeUncapped(size, cfg) == NumScale(size, cfg.riskPercentage, 100)

\* const scaledSize = size * (riskPercentage / 100); Math.min(scaledSize, maxPositionSize)
CappedSize(size, cfg) ==
  MathMin(NumScale(size, cfg.riskPercentage, 100), Num(cfg.maxPositionSize * 100))

\* Mutant of the price adjustment: a sell is not floored at 0.
adjustPriceWithoutFloor(midPrice, side, cfg) ==
  LET slippageAdjustment == NumScale(midPrice, cfg.slippageTolerance, 1000) IN
  IF side = "BUY" THEN NumAdd(midPrice, slippageAdjustment)
  ELSE NumSub(midPrice, slippageAdjustment)

adjustPriceForSlippage(midPrice, side, cfg) ==
  LET slippageAdjustment == NumScale(midPrice, cfg.slippageTolerance, 1000) IN
  IF side = "BUY" THEN NumAdd(midPrice, slippageAdjustment)
  ELSE MathMax(Num(0), NumSub(midPrice, slippageAdjustment))

\* executeCopyTrade before it calls placeOrder: "skip" (an early return) or
\* "place".
InvalidTokenId(tokenId) == tokenId = "" \/ Len(tokenId) < MinTokenLen

\* Mutant of executeCopyTrade: the token id is not looked at.
DecisionWithoutTokenCheck(t, cfg) ==
  IF NumLe(CappedSize(t.size, cfg), Num(0)) THEN "skip" ELSE "place"

ExecuteCopyTradeDecision(t, cfg) ==
  IF InvalidTokenId(t.tokenId) THEN "skip"
  ELSE IF NumLe(CappedSize(t.size, cfg), Num(0)) THEN "skip"
  ELSE "place"

\* placeOrder's own checks, each a throw.
PlaceOrderThrows(tokenId, price, size) ==
  \/ InvalidTokenId(tokenId)
  \/ NumLe(price, Num(0)) \/ NumGe(price, Num(ONE))
  \/ NumLe(size, Num(0))

\* executeCopyTrade(t) with placeOrder's checks, the network left out: the
\* trade is skipped, placeOrder throws, or createAndPostOrder gets the order.
CopyOutcome(t, cfg) ==
  LET price == adjustPriceForSlippage(t.price, t.side, cfg)
      size == CappedSize(t.size, cfg)
  IN IF ExecuteCopyTradeDecision(t, cfg) = "skip"
     THEN [kind |-> "skip", price |-> price, size |-> size]
     ELSE IF PlaceOrderThrows(t.tokenId, price, size)
          THEN [kind |-> "throw", price |-> price, size |-> size]
          ELSE [kind |-> "submit", price |-> price, size |-> size]

\* Mutants of the two catch blocks: the error is thrown again.
executeCopyTradeRethrows == FALSE
monitorRethrows == FALSE

\* Mutant of line 60: the loop does not wait for executeCopyTrade.
LoopDoesNotAwait == FALSE

\* await executeCopyTrade(t): the loop's next turn waits for the attempt.
LoopAwaitsAttempt == TRUE

\* Mutant of getUserTrades' catch: it returns an empty page.
getUserTradesReturnsEmpty == FALSE

\* getUserTrades' catch logs and rethrows (`throw e`).
getUserTradesRethrows == TRUE

\* executeCopyTrade's catch logs and returns: the error stops there.
executeCopyTradeCatches == TRUE
\* monitorAndCopyTrades' catch logs and returns: the promise resolves.
monitorCatches == TRUE

\* ------------------------------------------------------------------ state

VARIABLES
  config,                  \* the environment read at load time
  lastProcessedTimestamp,  \* part_000:6
  seen,                    \* part_000:9
  tradingClient,           \* part_006:27, TRUE once the SDK client exists
  monitoringInterval,      \* bot.ts:7, TRUE while the interval timer is set
  exited,                  \* process.exit was called
  fired,                   \* timer firings so far
  fetched,                 \* rows returned by the Data API so far
  tick,                    \* the invocations of monitorAndCopyTrades
  running,                 \* the invocation that holds the thread, or 0
  calls,                   \* history: createAndPostOrder invocations, in order
  accepted,                \* history: <<key, epoch>> of every trade kept by the novelty check
  rejected,                \* history: <<key, epoch>> of every trade the novelty check dropped
  clears,                  \* history: number of seen.clear() so far
  attempted,               \* history: [timestamp, res] of every fill whose loop turn is over
  feed,                    \* the source trader's recent trades, where a run fixes them
  fn,                      \* a function of the engine applied to chosen arguments
  bot,                     \* bot.ts: PolymarketCopyTradingBot and its start() / stop() calls
  tradingEngine,           \* tradingEngine.ts: TradingEngine and its invocations
  wsClient                 \* wsClient.ts: PolymarketWSClient and the sockets it created

\* The three classes of the bot's class variant.
classVars == <<bot, tradingEngine, wsClient>>

\* The variables the steps of the monitoring loop leave alone.
otherVars == <<feed, fn, classVars>>

vars == <<config, lastProcessedTimestamp, seen, tradingClient, monitoringInterval, exited,
          fired, fetched, tick, running, calls, accepted, rejected, clears, attempted,
          otherVars>>

Ticks == 1..MaxTicks

\* An invocation that has not started.
\* pc: where the invocation is; trades (history): the page being filtered;
\* cand: the candidates the filter callback has not seen yet; inflight
\* (history): the createAndPostOrder calls of the invocation not yet settled; newTrades: the trades kept so far, then the trades left to
\* dispatch; res: the result of the current attempt; resorted (history): the
\* sort changed the order of newTrades; requests (history): the axios.get
\* calls getUserTrades has made for the invocation; failed (history): one of
\* them was rejected; trigger (history): the entries of this invocation's
\* newTrades whose insert made seen.clear() run.
IdleTick ==
  [pc |-> "idle", trades |-> <<>>, cand |-> <<>>, newTrades |-> <<>>, res |-> "none",
   inflight |-> 0, resorted |-> FALSE, requests |-> 0, failed |-> FALSE, trigger |-> {}]

\* No function is being applied.
NoFn == [op |-> "none"]

Polls == 1..MaxPolls
Sockets == 1..MaxSockets

\* An invocation of TradingEngine.monitorAndCopyTrades that has not started.
\* pc: where it is; queue: the trades of newTrades not yet dispatched; top: the
\* largest timestamp of the fetched page.
IdlePoll == [pc |-> "idle", queue |-> <<>>, top |-> 0]

\* The three objects as their constructors leave them.
\* bot: state.isRunning, the two interval handles (TRUE while set), where the
\* start() and the stop() call are, the socket start() waits for, the orders
\* whose cancelOrder is pending, and (history) the interval timers of each
\* kind that were set and not cleared, and whether start() was called a
\* second time; state.errors, each message being the number of the addError
\* call that brought it, and (history) the number of addError calls.
\* tradingEngine: activeOrders (the ids), lastSyncTime, the invocations, and
\* (history) the number of orders the venue has accepted, the ids cancelOrder
\* was called for, those for which it failed, the trades passed to
\* executeCopyTrade, each with the invocation that passed it, and the trades
\* placeOrder was called for, each with the size of the order.
\* wsClient: ws (a socket, 0 for null), isConnecting, reconnectAttempts, the
\* state of every socket created, the reconnect timeouts pending, and
\* (history) whether disconnect() was the last call the owner made, the
\* delay, in seconds, of the last timeout attemptReconnect() set, and the
\* sockets whose connect() promise is neither resolved nor rejected.
\* A socket is "unused" (not created), "connecting", "late" (connecting, the
\* connection timeout of its connect() has fired), "aborting" (closed while
\* connecting, its error and close events to come), "open", "closing" or
\* "closed".
ClassInit ==
  /\ bot = [isRunning |-> FALSE, monitoringInterval |-> FALSE, updateInterval |-> FALSE,
            startPc |-> "idle", startSocket |-> 0, stopPc |-> "idle", cancelling |-> {},
            monitoringTimers |-> 0, updateTimers |-> 0, startedAgain |-> FALSE,
            errors |-> <<>>, errorCalls |-> 0]
  /\ tradingEngine = [activeOrders |-> {}, lastSyncTime |-> 0,
                      polls |-> [i \in Polls |-> IdlePoll], fired |-> 0,
                      placed |-> 0, cancelRequested |-> {}, cancelFailed |-> {},
                      executed |-> {}, ordered |-> {}]
  /\ wsClient = [ws |-> 0, isConnecting |-> FALSE, reconnectAttempts |-> 0,
                 sockets |-> [s \in Sockets |-> "unused"], timers |-> 0,
                 disconnected |-> FALSE, delay |-> 0, pending |-> {}]

\* The state of the engine's module once loaded.
EngineInit ==
  /\ lastProcessedTimestamp = 0
  /\ seen = {}
  /\ tradingClient = FALSE
  /\ monitoringInterval = FALSE
  /\ exited = FALSE
  /\ fired = 0
  /\ fetched = 0
  /\ tick = [i \in Ticks |-> IdleTick]
  /\ running = 0
  /\ calls = <<>>
  /\ accepted = {}
  /\ rejected = {}
  /\ clears = 0
  /\ attempted = {}

Init ==
  /\ config \in Configs
  /\ feed = <<>>
  /\ fn = NoFn
  /\ EngineInit
  /\ ClassInit

\* What an invocation's promise becomes when an error reaches the catch of
\* monitorAndCopyTrades.
MonitorSettles == IF monitorCatches THEN "resolved" ELSE "rejected"

\* ---------------------------------------------------------------- bot.ts

\* TradingBot.start: initializeClobClient(); startMonitoring().
Start ==
  /\ ~exited /\ running = 0 /\ ~monitoringInterval /\ fired = 0
  /\ monitoringInterval' = TRUE
  /\ UNCHANGED <<otherVars, config, lastProcessedTimestamp, seen, tradingClient, exited, fired,
                 fetched, tick, running, calls, accepted, rejected, clears, attempted>>

\* TradingBot.stop on SIGINT / SIGTERM: clearInterval, process.exit(0).
Stop ==
  /\ ~exited /\ running = 0
  /\ monitoringInterval' = FALSE
  /\ exited' = TRUE
  /\ UNCHANGED <<otherVars, config, lastProcessedTimestamp, seen, tradingClient, fired, fetched,
                 tick, running, calls, accepted, rejected, clears, attempted>>

\* The interval callback: monitorAndCopyTrades() runs up to await getUserTrades.
TimerFires ==
  /\ ~exited /\ running = 0 /\ monitoringInterval /\ fired < MaxTicks
  /\ fired' = fired + 1
  /\ tick' = [tick EXCEPT ![fired + 1].pc = "fetching", ![fired + 1].requests = 1]
  /\ UNCHANGED <<otherVars, config, lastProcessedTimestamp, seen, tradingClient, monitoringInterval,
                 exited, fetched, running, calls, accepted, rejected, clears, attempted>>

\* ------------------------------------------------- monitorAndCopyTrades

\* axios.get rejects: getUserTrades logs and rethrows, the catch of
\* monitorAndCopyTrades takes it.
FetchFails(i) ==
  /\ ~exited /\ running = 0 /\ tick[i].pc = "fetching"
  /\ tick' = IF getUserTradesRethrows
              THEN [tick EXCEPT ![i].pc = MonitorSettles, ![i].res = "fetchError",
                                ![i].failed = TRUE]
              ELSE [tick EXCEPT ![i].pc = "resolved", ![i].failed = TRUE]
  /\ UNCHANGED <<otherVars, config, lastProcessedTimestamp, seen, tradingClient, monitoringInterval,
                 exited, fired, fetched, running, calls, accepted, rejected, clears,
                 attempted>>

\* axios.get resolves with `rows`: lines 27-35.
FetchReturns(i, rows) ==
  /\ ~exited /\ running = 0 /\ tick[i].pc = "fetching"
  /\ fetched' = fetched + Len(rows)
  /\ LET trades == getUserTrades(rows) IN
     IF Len(trades) = 0
     THEN /\ tick' = [tick EXCEPT ![i].pc = "resolved"]
          /\ running' = 0
     ELSE /\ tick' = [tick EXCEPT ![i].pc = "filter", ![i].trades = trades,
                                  ![i].cand = Candidates(trades, lastProcessedTimestamp)]
          /\ running' = i
  /\ UNCHANGED <<otherVars, config, lastProcessedTimestamp, seen, tradingClient, monitoringInterval,
                 exited, fired, calls, accepted, rejected, clears, attempted>>

\* One call of the callback of candidates.filter(...): lines 37-47.
FilterStep(i) ==
  /\ running = i /\ tick[i].pc = "filter" /\ tick[i].cand # <<>>
  /\ LET t == Head(tick[i].cand)
         r == IsNewAndMark(seen, tradeKey(t))
     IN /\ seen' = r.seen
        /\ clears' = IF r.cleared THEN clears + 1 ELSE clears
        /\ accepted' = IF r.keep THEN accepted \cup {<<tradeKey(t), clears>>} ELSE accepted
        /\ rejected' = IF r.keep THEN rejected ELSE rejected \cup {<<tradeKey(t), clears>>}
        /\ tick' = [tick EXCEPT
             ![i].cand = Tail(@),
             ![i].newTrades = IF r.keep THEN Append(@, [t |-> t, epoch |-> clears]) ELSE @,
             ![i].trigger = IF r.cleared THEN @ \cup {[t |-> t, epoch |-> clears]} ELSE @]
  /\ UNCHANGED <<otherVars, config, lastProcessedTimestamp, tradingClient, monitoringInterval,
                 exited, fired, fetched, running, calls, attempted>>

\* The filter is over: lines 49-57.
FilterDone(i) ==
  /\ running = i /\ tick[i].pc = "filter" /\ tick[i].cand = <<>>
  /\ IF tick[i].newTrades = <<>>
     THEN /\ tick' = [tick EXCEPT ![i].pc = "resolved", ![i].trades = <<>>]
          /\ running' = 0
     ELSE /\ tick' = [tick EXCEPT ![i].pc = "exec", ![i].trades = <<>>,
                                  ![i].newTrades = SortByTimestamp(@),
                                  ![i].resorted = (SortByTimestamp(tick[i].newTrades) # tick[i].newTrades)]
          /\ running' = i
  /\ UNCHANGED <<otherVars, config, lastProcessedTimestamp, seen, tradingClient, monitoringInterval,
                 exited, fired, fetched, calls, accepted, rejected, clears, attempted>>

\* ----------------------------------------------------- executeCopyTrade

\* The trade of the current turn of `for (const t of newTrades)`.
Current(i) == Head(tick[i].newTrades)

\* executeCopyTrade returned: the loop goes on to line 61.
AttemptEnds(i, res) ==
  /\ tick' = [tick EXCEPT ![i].pc = "advance", ![i].res = res, ![i].inflight = 0]
  /\ running' = i

\* An error inside executeCopyTrade's try block.  Its catch ends the attempt;
\* were it to escape, the catch of monitorAndCopyTrades would end the invocation.
AttemptThrows(i) ==
  IF executeCopyTradeCatches
  THEN AttemptEnds(i, "failed")
  ELSE /\ tick' = [tick EXCEPT ![i].pc = MonitorSettles, ![i].inflight = 0]
       /\ running' = 0

\* placeOrder once the trading client is there: lines 155-164 of part_006.
\* Either a check throws, or createAndPostOrder is invoked and awaited.
PlaceOrderBody(i) ==
  LET t == Current(i).t
      price == adjustPriceForSlippage(t.price, t.side, config)
      size == CappedSize(t.size, config)
  IN IF PlaceOrderThrows(t.tokenId, price, size)
     THEN /\ AttemptThrows(i)
          /\ calls' = calls
     ELSE /\ calls' = Append(calls, [tick |-> i, key |-> tradeKey(t), epoch |-> Current(i).epoch,
                                     timestamp |-> t.timestamp, tokenID |-> t.tokenId,
                                     side |-> t.side, price |-> price, size |-> size])
          /\ IF LoopAwaitsAttempt
             THEN /\ tick' = [tick EXCEPT ![i].pc = "posting", ![i].inflight = @ + 1]
                  /\ running' = 0
             ELSE /\ tick' = [tick EXCEPT ![i].pc = "advance", ![i].inflight = @ + 1]
                  /\ running' = i

\* executeCopyTrade(t) up to its first wait: lines 72-105, and placeOrder up
\* to await getTradingClient().
Exec(i) ==
  /\ running = i /\ tick[i].pc = "exec"
  /\ IF ExecuteCopyTradeDecision(Current(i).t, config) = "skip"
     THEN AttemptEnds(i, "skipped") /\ calls' = calls
     ELSE IF tradingClient
          THEN PlaceOrderBody(i)
          ELSE /\ tick' = [tick EXCEPT ![i].pc = "auth"]
               /\ running' = 0
               /\ calls' = calls
  /\ UNCHANGED <<otherVars, config, lastProcessedTimestamp, seen, tradingClient, monitoringInterval,
                 exited, fired, fetched, accepted, rejected, clears, attempted>>

\* getTradingClient: createOrDeriveApiKey resolves, the client is kept.
AuthReturns(i) ==
  /\ ~exited /\ running = 0 /\ tick[i].pc = "auth"
  /\ tradingClient' = TRUE
  /\ PlaceOrderBody(i)
  /\ UNCHANGED <<otherVars, config, lastProcessedTimestamp, seen, monitoringInterval, exited, fired,
                 fetched, accepted, rejected, clears, attempted>>

\* getTradingClient: createOrDeriveApiKey rejects.
AuthFails(i) ==
  /\ ~exited /\ running = 0 /\ tick[i].pc = "auth"
  /\ AttemptThrows(i)
  /\ UNCHANGED <<otherVars, config, lastProcessedTimestamp, seen, tradingClient, monitoringInterval,
                 exited, fired, fetched, calls, accepted, rejected, clears, attempted>>

\* createAndPostOrder resolves: lines 166-174 of part_006, 112-117 of part_000.
PostReturns(i) ==
  /\ ~exited /\ running = 0 /\ tick[i].pc = "posting"
  /\ AttemptEnds(i, "submitted")
  /\ UNCHANGED <<otherVars, config, lastProcessedTimestamp, seen, tradingClient, monitoringInterval,
                 exited, fired, fetched, calls, accepted, rejected, clears, attempted>>

\* createAndPostOrder rejects: the venue refused the order, or the transport failed.
PostFails(i) ==
  /\ ~exited /\ running = 0 /\ tick[i].pc = "posting"
  /\ AttemptThrows(i)
  /\ UNCHANGED <<otherVars, config, lastProcessedTimestamp, seen, tradingClient, monitoringInterval,
                 exited, fired, fetched, calls, accepted, rejected, clears, attempted>>

\* Mutants of line 61: a plain assignment; an advance on success only.
AssignedMark(mark, timestamp, res) == timestamp
MarkOnSuccessOnly(mark, timestamp, res) ==
  IF res = "submitted" /\ timestamp > mark THEN timestamp ELSE mark

\* Mutant of the loop: a failed attempt is tried again.
RetryFailed(q, res) == IF res = "failed" THEN q ELSE Tail(q)

\* lastProcessedTimestamp = Math.max(lastProcessedTimestamp, t.timestamp), whatever
\* the attempt's result `res`.
AdvancedMark(mark, timestamp, res) == IF mark >= timestamp THEN mark ELSE timestamp

\* for (const t of newTrades): the trades left once the turn of Head(q) is over.
RestOfLoop(q, res) == Tail(q)

\* Line 61, then the next turn of the loop or the end of the invocation.
Advance(i) ==
  /\ running = i /\ tick[i].pc = "advance"
  /\ lastProcessedTimestamp' =
       AdvancedMark(lastProcessedTimestamp, Current(i).t.timestamp, tick[i].res)
  /\ attempted' = attempted \cup {[timestamp |-> Current(i).t.timestamp, res |-> tick[i].res]}
  /\ IF RestOfLoop(tick[i].newTrades, tick[i].res) = <<>>
     THEN /\ tick' = [tick EXCEPT ![i].pc = "resolved", ![i].newTrades = <<>>,
                                  ![i].res = "none", ![i].resorted = FALSE,
                                  ![i].trigger = {}]
          /\ running' = 0
     ELSE /\ tick' = [tick EXCEPT ![i].pc = "exec", ![i].newTrades = RestOfLoop(@, tick[i].res),
                                  ![i].res = "none"]
          /\ running' = i
  /\ UNCHANGED <<otherVars, config, seen, tradingClient, monitoringInterval, exited, fired, fetched,
                 calls, accepted, rejected, clears>>

\* ------------------------------------------------ a run over a fixed feed

\* RISK_PERCENTAGE 10, MAX_POSITION_SIZE 100, SLIPPAGE_TOLERANCE 1.
ScenarioConfig == [riskPercentage |-> 10, maxPositionSize |-> 100, slippageTolerance |-> 10]

\* Two trades of the source trader: a BUY of 50 at 0.40 and, one second later,
\* a SELL of 5000 at 0.60.
Tx1 == [transactionHash |-> "0xtx1", conditionId |-> "m1", asset |-> GoodAsset, side |-> "BUY",
        price |-> RawNum(400000), size |-> RawNum(5000), timestamp |-> 100]
Tx2 == [transactionHash |-> "0xtx2", conditionId |-> "m1", asset |-> GoodAsset, side |-> "SELL",
        price |-> RawNum(600000), size |-> RawNum(500000), timestamp |-> 101]

\* The feed holds the same rows at every poll of the run.
ScenarioInit ==
  /\ config \in {ScenarioConfig, DefaultConfig}
  /\ feed \in SeqUpTo({Tx1, Tx2}, 3)
  /\ fn = NoFn
  /\ EngineInit
  /\ ClassInit

ScenarioNext ==
  \/ Start
  \/ Stop
  \/ TimerFires
  \/ \E i \in Ticks : FetchFails(i)
  \/ \E i \in Ticks : FetchReturns(i, feed)
  \/ \E i \in Ticks : FilterStep(i)
  \/ \E i \in Ticks : FilterDone(i)
  \/ \E i \in Ticks : Exec(i)
  \/ \E i \in Ticks : AuthReturns(i)
  \/ \E i \in Ticks : AuthFails(i)
  \/ \E i \in Ticks : PostReturns(i)
  \/ \E i \in Ticks : PostFails(i)
  \/ \E i \in Ticks : Advance(i)

ScenarioSpec == ScenarioInit /\ [][ScenarioNext]_vars

\* Two more trades of the source trader, five seconds apart: a BUY of 800 and
\* a BUY of 5000 of the same asset.
Px1 == [transactionHash |-> "0xp1", conditionId |-> "m1", asset |-> GoodAsset, side |-> "BUY",
        price |-> RawNum(400000), size |-> RawNum(80000), timestamp |-> 200]
Px2 == [transactionHash |-> "0xp2", conditionId |-> "m1", asset |-> GoodAsset, side |-> "BUY",
        price |-> RawNum(400000), size |-> RawNum(500000), timestamp |-> 205]

\* A run under ScenarioConfig over a feed of these.
PositionInit ==
  /\ config = ScenarioConfig
  /\ feed \in SeqUpTo({Px1, Px2}, 2)
  /\ fn = NoFn
  /\ EngineInit
  /\ ClassInit

PositionSpec == PositionInit /\ [][ScenarioNext]_vars

\* ------------------------------------------- the engine's functions alone

\* The configurations the functions are applied under: (riskPercentage,
\* maxPositionSize) (2, 1000) and (10, 100); slippageTolerance 0, 0.5, 1, 100
\* and 200 percent.
FnConfigs ==
  { [riskPercentage |-> rm[1], maxPositionSize |-> rm[2], slippageTolerance |-> s] :
      rm \in {<<2, 1000>>, <<10, 100>>}, s \in {0, 5, 10, 1000, 2000} }

\* Trades for executeCopyTrade and adjustPriceForSlippage: every kind of token
\* id, price and size getUserTrades can produce.
CopyFills ==
  [orderId : {"0xa1"}, marketId : {"m1"}, tokenId : {GoodAsset, "abc", ""},
   side : {"BUY", "SELL"},
   price : {Num(0), Num(1000), Num(400000), Num(500000), Num(ONE), NaN},
   size : {Num(0), Num(-5000), Num(5000), Num(10000), Num(500000), Num(10000000), NaN},
   timestamp : {1}]

\* Trades for tradeKey: with and without a transaction hash, every other field
\* with two values.
KeyFills ==
  [orderId : {"0xa1", "0xb2", ""}, marketId : {"m1", "m2"}, tokenId : {GoodAsset, "abc"},
   side : {"BUY", "SELL"}, price : {Num(400000), Num(600000)},
   size : {Num(5000), Num(1000)}, timestamp : {1, 5}]

\* A function about to be applied: op names it, a and b are its arguments.
FnCall(op, a, b) == [op |-> op, a |-> a, b |-> b, done |-> FALSE, out |-> <<>>]

FnInit ==
  /\ feed = <<>>
  /\ EngineInit
  /\ ClassInit
  /\ \/ /\ config \in FnConfigs
        /\ fn \in {FnCall("copy", a, a) : a \in CopyFills}
     \/ /\ config = DefaultConfig
        /\ fn \in {FnCall("key", a, b) : a \in KeyFills, b \in KeyFills}

loopVars ==
  <<config, lastProcessedTimestamp, seen, tradingClient, monitoringInterval, exited,
    fired, fetched, tick, running, calls, accepted, rejected, clears, attempted>>

\* executeCopyTrade(fn.a) as far as the order, and the price it computes.
ApplyCopy ==
  /\ fn.op = "copy" /\ ~fn.done
  /\ fn' = [fn EXCEPT !.done = TRUE,
                       !.out = <<CopyOutcome(fn.a, config),
                                 adjustPriceForSlippage(fn.a.price, fn.a.side, config)>>]
  /\ UNCHANGED <<loopVars, feed, classVars>>

\* tradeKey of two trades.
ApplyKey ==
  /\ fn.op = "key" /\ ~fn.done
  /\ fn' = [fn EXCEPT !.done = TRUE, !.out = <<tradeKey(fn.a), tradeKey(fn.b)>>]
  /\ UNCHANGED <<loopVars, feed, classVars>>

FnNext == ApplyCopy \/ ApplyKey

FnSpec == FnInit /\ [][FnNext]_vars

\* ------------------------------------------------------ PolymarketWSClient

\* new WebSocket(url): the next socket not yet created.
FreeSocket(w) ==
  CHOOSE s \in Sockets :
    w.sockets[s] = "unused" /\ \A r \in Sockets : r < s => w.sockets[r] # "unused"

HasFreeSocket(w) == \E s \in Sockets : w.sockets[s] = "unused"

\* if (this.isConnecting || this.ws?.readyState === WebSocket.OPEN) return;
ConnectReturnsAtOnce(w) ==
  w.isConnecting \/ (w.ws # 0 /\ w.sockets[w.ws] = "open")

\* connect() up to the return of its promise.
Connect(w) ==
  IF ConnectReturnsAtOnce(w) THEN w
  ELSE [w EXCEPT !.isConnecting = TRUE, !.ws = FreeSocket(w),
                 !.sockets[FreeSocket(w)] = "connecting",
                 !.pending = @ \cup {FreeSocket(w)}]

\* disconnect(): close() on a socket that is connecting aborts the handshake
\* (an error event, then a close event); on an open one it starts the closing
\* handshake (a close event); the handlers stay on the socket.
Disconnect(w) ==
  IF w.ws = 0 THEN w
  ELSE [w EXCEPT !.ws = 0,
                 !.sockets[w.ws] = CASE @ \in {"connecting", "late"} -> "aborting"
                                     [] @ = "open" -> "closing"
                                     [] OTHER -> @]

\* Mutant of the delay: it grows by reconnectDelay at every attempt.
LinearDelay(attempts) == reconnectDelay * attempts

\* reconnectDelay * Math.pow(2, reconnectAttempts - 1)
BackoffDelay(attempts) == reconnectDelay * 2^(attempts - 1)

\* Mutant of attemptReconnect(): without the test of line 150.
AttemptReconnectUnbounded(w) ==
  [w EXCEPT !.reconnectAttempts = @ + 1, !.timers = @ + 1,
            !.delay = BackoffDelay(w.reconnectAttempts + 1)]

\* attemptReconnect(): setTimeout(() => this.connect(), delay).
AttemptReconnect(w) ==
  IF w.reconnectAttempts >= maxReconnectAttempts THEN w
  ELSE [w EXCEPT !.reconnectAttempts = @ + 1, !.timers = @ + 1,
                 !.delay = BackoffDelay(w.reconnectAttempts + 1)]

\* The handlers connect() puts on a socket; OnOpenKeepsFlag is a mutant of
\* onopen that leaves isConnecting as it is.
OnOpenKeepsFlag(w) == [w EXCEPT !.reconnectAttempts = 0]
OnOpen(w) == [w EXCEPT !.reconnectAttempts = 0, !.isConnecting = FALSE]
OnError(w) == [w EXCEPT !.isConnecting = FALSE]
OnClose(w) == AttemptReconnect([w EXCEPT !.isConnecting = FALSE])

\* ------------------------------------------------- PolymarketCopyTradingBot

\* stop() from `this.wsClient.disconnect()` on: lines 168-171, after
\* cancelAllOrders has cleared activeOrders (tradingEngine.ts:186).
StopEnds(b, e, w) ==
  /\ bot' = [b EXCEPT !.isRunning = FALSE, !.stopPc = "done", !.cancelling = {}]
  /\ tradingEngine' = [e EXCEPT !.activeOrders = {}]
  /\ wsClient' = [Disconnect(w) EXCEPT !.disconnected = TRUE]

\* stop() up to `await Promise.all(cancelPromises)`: the timers are cleared and
\* cancelOrder is called for every key of activeOrders.  With no key there is
\* nothing to wait for.
StopBegins(b, e, w) ==
  LET b1 == [b EXCEPT !.monitoringInterval = FALSE, !.updateInterval = FALSE,
                      !.monitoringTimers = IF b.monitoringInterval THEN @ - 1 ELSE @,
                      !.updateTimers = IF b.updateInterval THEN @ - 1 ELSE @]
      keys == e.activeOrders
  IN IF keys = {}
     THEN StopEnds(b1, e, w)
     ELSE /\ bot' = [b1 EXCEPT !.stopPc = "cancelling", !.cancelling = keys]
          /\ tradingEngine' = [e EXCEPT !.cancelRequested = @ \cup keys]
          /\ wsClient' = w

\* start() after `await this.wsClient.connect()`: lines 129-138.
StartContinues(b) ==
  [b EXCEPT !.monitoringInterval = TRUE, !.updateInterval = TRUE, !.isRunning = TRUE,
            !.startPc = "done",
            !.monitoringTimers = @ + 1, !.updateTimers = @ + 1]

\* The owner calls start() again while the first call waits for its socket or
\* after it set isRunning.  With isRunning set the call returns at line 120;
\* otherwise connect() returns at once, isConnecting being set, and the call
\* goes through lines 129-138 before any other callback runs.
BotStartAgain ==
  /\ ~bot.startedAgain
  /\ bot.isRunning \/ (bot.startPc = "connecting" /\ ConnectReturnsAtOnce(wsClient))
  /\ bot' = IF bot.isRunning
            THEN [bot EXCEPT !.startedAgain = TRUE]
            ELSE [bot EXCEPT !.startedAgain = TRUE,
                             !.monitoringInterval = TRUE, !.updateInterval = TRUE,
                             !.isRunning = TRUE,
                             !.monitoringTimers = @ + 1, !.updateTimers = @ + 1]
  /\ UNCHANGED <<wsClient, tradingEngine, loopVars, feed, fn>>

\* The owner calls start(): lines 117-126.
BotStart ==
  /\ bot.startPc = "idle" /\ bot.stopPc = "idle" /\ ~bot.isRunning
  /\ ConnectReturnsAtOnce(wsClient) \/ HasFreeSocket(wsClient)
  /\ LET w1 == [Connect(wsClient) EXCEPT !.disconnected = FALSE] IN
     /\ wsClient' = w1
     /\ bot' = IF ConnectReturnsAtOnce(wsClient) THEN StartContinues(bot)
               ELSE [bot EXCEPT !.startPc = "connecting", !.startSocket = w1.ws]
  /\ UNCHANGED <<tradingEngine, loopVars, feed, fn>>

\* The owner calls stop().
BotStop ==
  /\ bot.stopPc = "idle"
  /\ StopBegins(bot, tradingEngine, wsClient)
  /\ UNCHANGED <<loopVars, feed, fn>>

\* A cancelOrder call of cancelAllOrders settles; a rejection is logged by its
\* own catch.  The last one lets Promise.all resolve and stop() go on.
CancelSettles(id, ok) ==
  /\ bot.stopPc = "cancelling" /\ id \in bot.cancelling
  /\ LET e1 == IF ok THEN tradingEngine
               ELSE [tradingEngine EXCEPT !.cancelFailed = @ \cup {id}]
     IN IF bot.cancelling = {id}
        THEN StopEnds(bot, e1, wsClient)
        ELSE /\ bot' = [bot EXCEPT !.cancelling = @ \ {id}]
             /\ tradingEngine' = e1
             /\ wsClient' = wsClient
  /\ UNCHANGED <<loopVars, feed, fn>>

CancelReturns(id) == CancelSettles(id, TRUE)
CancelFails(id) == CancelSettles(id, FALSE)

\* ------------------------------------------------------ socket events

\* The socket opens: onopen, and start() goes on if it waits for this socket.
WsOpens(s) ==
  /\ wsClient.sockets[s] \in {"connecting", "late"}
  /\ wsClient' = OnOpen([wsClient EXCEPT !.sockets[s] = "open", !.pending = @ \ {s}])
  /\ bot' = IF bot.startPc = "connecting" /\ bot.startSocket = s
            THEN StartContinues(bot) ELSE bot
  /\ UNCHANGED <<tradingEngine, loopVars, feed, fn>>

\* The handshake fails or was aborted: onerror, then onclose; a start() that
\* waits for this socket goes to its catch, which calls stop().
WsFails(s) ==
  /\ wsClient.sockets[s] \in {"connecting", "aborting", "late"}
  /\ LET w1 == OnClose(OnError([wsClient EXCEPT !.sockets[s] = "closed",
                                                !.pending = @ \ {s}])) IN
     IF bot.startPc = "connecting" /\ bot.startSocket = s
     THEN StopBegins([bot EXCEPT !.startPc = "failed"], tradingEngine, w1)
     ELSE /\ wsClient' = w1
          /\ UNCHANGED <<bot, tradingEngine>>
  /\ UNCHANGED <<loopVars, feed, fn>>

\* An open socket is closed, by the server or after close(): onclose.
WsCloses(s) ==
  /\ wsClient.sockets[s] \in {"open", "closing"}
  /\ wsClient' = OnClose([wsClient EXCEPT !.sockets[s] = "closed"])
  /\ UNCHANGED <<bot, tradingEngine, loopVars, feed, fn>>

\* wsClient (1).ts, lines 35-43: eight seconds after connect() created socket
\* s none of its events has come.  The callback clears isConnecting, closes
\* and drops the socket the client holds and rejects the promise; a start()
\* that waits for it goes to its catch, which calls stop().
ConnectionTimeout(s) ==
  /\ wsClient.sockets[s] = "connecting"
  /\ LET w0 == [wsClient EXCEPT !.isConnecting = FALSE, !.pending = @ \ {s},
                                 !.sockets[s] = "late"]
         w1 == Disconnect(w0)
     IN IF bot.startPc = "connecting" /\ bot.startSocket = s
        THEN StopBegins([bot EXCEPT !.startPc = "failed"], tradingEngine, w1)
        ELSE /\ wsClient' = w1
             /\ UNCHANGED <<bot, tradingEngine>>
  /\ UNCHANGED <<loopVars, feed, fn>>

\* A timeout of attemptReconnect fires: this.connect().
ReconnectTimerFires ==
  /\ wsClient.timers > 0
  /\ ConnectReturnsAtOnce(wsClient) \/ HasFreeSocket(wsClient)
  /\ wsClient' = Connect([wsClient EXCEPT !.timers = @ - 1])
  /\ UNCHANGED <<bot, tradingEngine, loopVars, feed, fn>>

\* ------------------------------------------------------------ TradingEngine

\* The trades getUserTrades can return to the engine: timestamp and size (in
\* hundredths); sizes 100, 10 and 5000.
ClassTrades ==
  { [timestamp |-> 1, size |-> 10000], [timestamp |-> 2, size |-> 1000],
    [timestamp |-> 2, size |-> 500000] }

ClassPages == SeqUpTo(ClassTrades, MaxClassPage)

\* calculateOrderSize: Math.round(size * (riskPercentage / 100) * 100) / 100.
calculateOrderSize(size, cfg) == (size * cfg.riskPercentage + 50) \div 100

\* Mutant of lines 73-81: no size is refused.
NeverOutOfRange(t, cfg) == FALSE

\* executeCopyTrade returns before any await: the size is below minOrderSize
\* or above maxOrderSize (config.maxPositionSize).
SizeOutOfRange(t, cfg) ==
  \/ calculateOrderSize(t.size, cfg) < minOrderSize
  \/ calculateOrderSize(t.size, cfg) > cfg.maxPositionSize * 100

\* The loop of monitorAndCopyTrades up to the first trade whose
\* executeCopyTrade waits for the network.
RECURSIVE NextToPlace(_, _)
NextToPlace(q, cfg) ==
  IF q = <<>> THEN <<>>
  ELSE IF SizeOutOfRange(Head(q), cfg) THEN NextToPlace(Tail(q), cfg)
  ELSE q

\* The trades of `rest` the loop passes to executeCopyTrade before it waits
\* for the network: those NextToPlace goes over, and the one it stops at.
PassedToExecute(rest, cfg) ==
  LET q == NextToPlace(rest, cfg)
      n == Len(rest) - Len(q) + (IF q = <<>> THEN 0 ELSE 1)
  IN {rest[k] : k \in 1..n}

\* The loop goes on with the trades `rest`; when none is left to place,
\* line 52 sets lastSyncTime and the invocation is over.
ContinueLoop(e, i, rest) ==
  LET q == NextToPlace(rest, config)
      e1 == [e EXCEPT !.executed =
               @ \cup {[poll |-> i, trade |-> t] : t \in PassedToExecute(rest, config)}]
  IN IF q = <<>>
     THEN [e1 EXCEPT !.polls[i] = [pc |-> "done", queue |-> <<>>, top |-> 0],
                     !.lastSyncTime = e.polls[i].top]
     ELSE [e1 EXCEPT !.polls[i].pc = "midprice", !.polls[i].queue = q]

\* The monitoring interval fires: monitorAndCopyTrades() up to await getUserTrades.
PollFires ==
  /\ bot.monitoringTimers > 0 /\ tradingEngine.fired < MaxPolls
  /\ tradingEngine' = [tradingEngine EXCEPT !.fired = @ + 1,
                                            !.polls[tradingEngine.fired + 1].pc = "fetching"]
  /\ UNCHANGED <<bot, wsClient, loopVars, feed, fn>>

\* getUserTrades rejects: the catch of monitorAndCopyTrades logs it.
PollFetchFails(i) ==
  /\ tradingEngine.polls[i].pc = "fetching"
  /\ tradingEngine' = [tradingEngine EXCEPT !.polls[i].pc = "done"]
  /\ UNCHANGED <<bot, wsClient, loopVars, feed, fn>>

\* getUserTrades resolves with `page`: lines 33-49.
PollFetchReturns(i, page) ==
  /\ tradingEngine.polls[i].pc = "fetching"
  /\ LET Newer(t) == t.timestamp > tradingEngine.lastSyncTime
         newTrades == SelectSeq(page, Newer)
         top == MaxOf({page[n].timestamp : n \in 1..Len(page)} \cup {0})
     IN tradingEngine' =
          IF newTrades = <<>>
          THEN [tradingEngine EXCEPT !.polls[i].pc = "done"]
          ELSE ContinueLoop([tradingEngine EXCEPT !.polls[i].top = top], i, newTrades)
  /\ UNCHANGED <<bot, wsClient, loopVars, feed, fn>>

\* getMidPrice resolves: lines 85-88, up to await placeOrder.
PollMidPriceReturns(i) ==
  /\ tradingEngine.polls[i].pc = "midprice"
  /\ LET t == Head(tradingEngine.polls[i].queue) IN
     tradingEngine' =
       [tradingEngine EXCEPT !.polls[i].pc = "placing",
          !.ordered = @ \cup {[trade |-> t, size |-> calculateOrderSize(t.size, config)]}]
  /\ UNCHANGED <<bot, wsClient, loopVars, feed, fn>>

\* getMidPrice rejects: the catch of executeCopyTrade logs it, the loop goes on.
PollMidPriceFails(i) ==
  /\ tradingEngine.polls[i].pc = "midprice"
  /\ tradingEngine' = ContinueLoop(tradingEngine, i, Tail(tradingEngine.polls[i].queue))
  /\ UNCHANGED <<bot, wsClient, loopVars, feed, fn>>

\* placeOrder resolves with the venue's order: activeOrders.set(order.id, order).
PollPlaceReturns(i) ==
  /\ tradingEngine.polls[i].pc = "placing"
  /\ LET id == tradingEngine.placed + 1
         e1 == [tradingEngine EXCEPT !.placed = id, !.activeOrders = @ \cup {id}]
     IN tradingEngine' = ContinueLoop(e1, i, Tail(tradingEngine.polls[i].queue))
  /\ UNCHANGED <<bot, wsClient, loopVars, feed, fn>>

\* placeOrder rejects: the catch of executeCopyTrade logs it, the loop goes on.
PollPlaceFails(i) ==
  /\ tradingEngine.polls[i].pc = "placing"
  /\ tradingEngine' = ContinueLoop(tradingEngine, i, Tail(tradingEngine.polls[i].queue))
  /\ UNCHANGED <<bot, wsClient, loopVars, feed, fn>>

\* The three classes, driven by their owner, the timers, the venue and the
\* sockets.
BotInit ==
  /\ config = DefaultConfig
  /\ feed = <<>>
  /\ fn = NoFn
  /\ EngineInit
  /\ ClassInit

BotNext ==
  \/ BotStart
  \/ BotStop
  \/ \E id \in 1..(MaxPolls * MaxClassPage) : CancelReturns(id)
  \/ \E id \in 1..(MaxPolls * MaxClassPage) : CancelFails(id)
  \/ \E s \in Sockets : WsOpens(s)
  \/ \E s \in Sockets : WsFails(s)
  \/ \E s \in Sockets : WsCloses(s)
  \/ ReconnectTimerFires
  \/ PollFires
  \/ \E i \in Polls : PollFetchFails(i)
  \/ \E i \in Polls, page \in ClassPages : PollFetchReturns(i, page)
  \/ \E i \in Polls : PollMidPriceReturns(i)
  \/ \E i \in Polls : PollMidPriceFails(i)
  \/ \E i \in Polls : PollPlaceReturns(i)
  \/ \E i \in Polls : PollPlaceFails(i)

BotSpec == BotInit /\ [][BotNext]_vars

\* A socket that is closed and that the client no longer holds: no event of it
\* is left and nothing refers to it, and `new WebSocket` may get its place.
SocketCollected(s) ==
  /\ wsClient.sockets[s] = "closed" /\ wsClient.ws # s
  /\ wsClient' = [wsClient EXCEPT !.sockets[s] = "unused"]
  /\ UNCHANGED <<bot, tradingEngine, loopVars, feed, fn>>

\* The client and its owner over any number of sockets, MaxSockets of them
\* alive at a time.
ReconnectNext ==
  \/ BotStart
  \/ BotStop
  \/ \E s \in Sockets : WsOpens(s)
  \/ \E s \in Sockets : WsFails(s)
  \/ \E s \in Sockets : WsCloses(s)
  \/ ReconnectTimerFires
  \/ \E s \in Sockets : SocketCollected(s)

ReconnectSpec == BotInit /\ [][ReconnectNext]_vars

\* The client of wsClient (1).ts, whose connect() sets a connection timeout,
\* with its owner.  The network settles every handshake, and the timeout
\* fires unless an event of the socket clears it.
ConnectNext ==
  \/ ReconnectNext
  \/ \E s \in Sockets : ConnectionTimeout(s)

AttemptSettles(s) == WF_vars(WsOpens(s) \/ WsFails(s) \/ ConnectionTimeout(s))

ConnectSpec == BotInit /\ [][ConnectNext]_vars /\ \A s \in Sockets : AttemptSettles(s)

\* Mutant of the slice: the first 100 messages are kept.
KeepFirst(errs) ==
  IF Len(errs) > maxErrorLog THEN SubSeq(errs, 1, maxErrorLog) ELSE errs

\* if (errors.length > 100) errors = errors.slice(-100)
KeepLast(errs) ==
  IF Len(errs) > maxErrorLog THEN SubSeq(errs, Len(errs) - maxErrorLog + 1, Len(errs)) ELSE errs

\* addError(error): push, then the slice.
AddError ==
  /\ bot.errorCalls < MaxErrors
  /\ bot' = [bot EXCEPT !.errorCalls = @ + 1,
                         !.errors = KeepLast(Append(@, bot.errorCalls + 1))]
  /\ UNCHANGED <<wsClient, tradingEngine, loopVars, feed, fn>>

\* The error log under any number of addError calls.
ErrorSpec == BotInit /\ [][AddError]_vars

\* The bot with an owner that may call start() a second time.
RestartNext ==
  \/ BotStart
  \/ BotStartAgain
  \/ BotStop
  \/ \E s \in Sockets : WsOpens(s)
  \/ \E s \in Sockets : WsFails(s)
  \/ \E s \in Sockets : WsCloses(s)
  \/ ReconnectTimerFires
  \/ PollFires
  \/ \E i \in Polls : PollFetchFails(i)

RestartSpec == BotInit /\ [][RestartNext]_vars

\* The classes with RISK_PERCENTAGE = 5 and MAX_POSITION_SIZE = 100, and a
\* source trader whose trades have the sizes 33.35 and 33.27 (orders of
\* 1.6675 and 1.6635 before rounding), 10 (0.50, below minOrderSize) and
\* 5000 (250, above maxOrderSize).
SizeConfig == [riskPercentage |-> 5, maxPositionSize |-> 100, slippageTolerance |-> 5]

SizeTrades ==
  { [timestamp |-> 1, size |-> 3335], [timestamp |-> 1, size |-> 3327],
    [timestamp |-> 2, size |-> 1000], [timestamp |-> 2, size |-> 500000] }

SizePages == SeqUpTo(SizeTrades, MaxClassPage)

SizeInit ==
  /\ config = SizeConfig
  /\ feed = <<>>
  /\ fn = NoFn
  /\ EngineInit
  /\ ClassInit

SizeNext ==
  \/ BotStart
  \/ BotStop
  \/ \E id \in 1..(MaxPolls * MaxClassPage) : CancelReturns(id)
  \/ \E id \in 1..(MaxPolls * MaxClassPage) : CancelFails(id)
  \/ \E s \in Sockets : WsOpens(s)
  \/ \E s \in Sockets : WsFails(s)
  \/ \E s \in Sockets : WsCloses(s)
  \/ ReconnectTimerFires
  \/ PollFires
  \/ \E i \in Polls : PollFetchFails(i)
  \/ \E i \in Polls, page \in SizePages : PollFetchReturns(i, page)
  \/ \E i \in Polls : PollMidPriceReturns(i)
  \/ \E i \in Polls : PollMidPriceFails(i)
  \/ \E i \in Polls : PollPlaceReturns(i)
  \/ \E i \in Polls : PollPlaceFails(i)

SizeSpec == SizeInit /\ [][SizeNext]_vars

\* ---------------------------------------------------------- specification

Next ==
  \/ Start
  \/ Stop
  \/ TimerFires
  \/ \E i \in Ticks : FetchFails(i)
  \/ \E i \in Ticks, rows \in Pages(MaxRows - fetched) : FetchReturns(i, rows)
  \/ \E i \in Ticks : FilterStep(i)
  \/ \E i \in Ticks : FilterDone(i)
  \/ \E i \in Ticks : Exec(i)
  \/ \E i \in Ticks : AuthReturns(i)
  \/ \E i \in Ticks : AuthFails(i)
  \/ \E i \in Ticks : PostReturns(i)
  \/ \E i \in Ticks : PostFails(i)
  \/ \E i \in Ticks : Advance(i)

Spec == Init /\ [][Next]_vars

\* Every network call of an invocation settles in the end (axios and the SDK
\* resolve, reject or time out), and the event loop runs every continuation
\* that is ready.
NetworkSettles(i) ==
  /\ WF_vars(FetchFails(i) \/ \E rows \in Pages(MaxRows - fetched) : FetchReturns(i, rows))
  /\ WF_vars(AuthReturns(i) \/ AuthFails(i))
  /\ WF_vars(PostReturns(i) \/ PostFails(i))

EventLoopRuns(i) ==
  WF_vars(FilterStep(i) \/ FilterDone(i) \/ Exec(i) \/ Advance(i))

LiveSpec == Spec /\ \A i \in Ticks : NetworkSettles(i) /\ EventLoopRuns(i)

\* ------------------------------------------------------------- properties

\* An invocation of monitorAndCopyTrades that has started and not settled.
InProgress(i) == tick[i].pc \notin {"idle", "resolved", "rejected"}

\* An invocation inside the dispatch loop.
Dispatching(i) == tick[i].pc \in {"exec", "auth", "posting", "advance"}

\* The createAndPostOrder invocations of invocation i, in order.
CallsOf(i) == LET Mine(c) == c.tick = i IN SelectSeq(calls, Mine)

\* The timestamps of a sequence of calls or of queued trades.
CallStamps(s) == [n \in 1..Len(s) |-> s[n].timestamp]

\* C1: between two clears of the dedup set the novelty check keeps a key at
\* most once: a step of the filter callback that keeps a trade keeps one whose
\* key was not kept before in the same epoch (the epoch counts the clears), so
\* that no trade with that key and epoch is waiting for dispatch in any
\* invocation and no order was submitted for it.
C1_KeptOnce ==
  \A i \in Ticks :
    (running = i /\ tick[i].pc = "filter"
       /\ Len(tick'[i].newTrades) = Len(tick[i].newTrades) + 1)
    => <<tradeKey(Head(tick[i].cand)), clears>> \notin accepted

C1_QueuedOnce ==
  \A i \in Ticks :
    (running = i /\ tick[i].pc = "filter"
       /\ Len(tick'[i].newTrades) = Len(tick[i].newTrades) + 1)
    => LET key == tradeKey(Head(tick[i].cand))
       IN  /\ \A j \in Ticks : \A n \in 1..Len(tick[j].newTrades) :
                 ~(tradeKey(tick[j].newTrades[n].t) = key
                     /\ tick[j].newTrades[n].epoch = clears)
           /\ \A n \in 1..Len(calls) :
                 ~(calls[n].key = key /\ calls[n].epoch = clears)

C1_IdempotentDedup == [][C1_KeptOnce /\ C1_QueuedOnce]_vars

\* C1 witness: a key was kept, its order was placed, and the same key came
\* again in the same epoch and was dropped.
C1_Witness ==
  \E n \in 1..Len(calls) :
    /\ <<calls[n].key, calls[n].epoch>> \in accepted \cap rejected
    /\ \A i \in Ticks : ~InProgress(i)

\* C2 (as claimed): at most one invocation of monitorAndCopyTrades is in
\* progress at any time.
C2_TicksNeverOverlap ==
  \A i, j \in Ticks : (InProgress(i) /\ InProgress(j)) => i = j

\* C3: within one invocation the orders are placed in ascending order of
\* timestamp, and the trades left to dispatch are in ascending order and not
\* older than the orders already placed.
C3_ChronologicalDispatch ==
  \A i \in Ticks :
    LET stamps == CallStamps(CallsOf(i)) \o
                  (IF Dispatching(i) THEN CallStamps([n \in 1..Len(tick[i].newTrades) |->
                                                        tick[i].newTrades[n].t])
                   ELSE <<>>)
    IN \A a, b \in 1..Len(stamps) : a < b => stamps[a] <= stamps[b]

\* C3 witness: the feed gave the trades out of order; the orders for
\* timestamps 1 and 3 went out in that order and the trade of timestamp 5 is
\* the last one of the loop.
C3_Witness ==
  \E i \in Ticks :
    /\ tick[i].resorted /\ tick[i].pc = "advance"
    /\ CallStamps(CallsOf(i)) = <<1, 3>>
    /\ Len(tick[i].newTrades) = 1 /\ Current(i).t.timestamp = 5

\* C4: lastProcessedTimestamp starts at 0, never decreases, changes only at
\* line 61 where it becomes the larger of itself and the timestamp of the trade
\* just attempted, and so always is the largest timestamp attempted (0 if none).
C4_MarkIsMax ==
  lastProcessedTimestamp = MaxOf({a.timestamp : a \in attempted} \cup {0})

C4_MarkStep ==
  /\ lastProcessedTimestamp' >= lastProcessedTimestamp
  /\ lastProcessedTimestamp' # lastProcessedTimestamp
     => \E i \in Ticks :
          /\ running = i /\ tick[i].pc = "advance"
          /\ lastProcessedTimestamp' =
               MaxOf({lastProcessedTimestamp, Current(i).t.timestamp})

C4_HighWaterMark == C4_MarkIsMax /\ [][C4_MarkStep /\ C4_MarkIsMax']_vars

\* C4 witness: a fetch failed, a trade was skipped, a submission failed, and
\* the mark stands at the largest timestamp attempted.
C4_Witness ==
  /\ lastProcessedTimestamp = 5
  /\ \E i \in Ticks : tick[i].res = "fetchError"
  /\ \E a, b \in attempted : a.res = "skipped" /\ b.res = "failed"

\* C5: once the loop turn of a trade is over, whatever its result (submitted,
\* failed, skipped), lastProcessedTimestamp is at least the trade's timestamp,
\* now and ever after.
C5_MarkCoversAttempts ==
  \A a \in attempted : lastProcessedTimestamp >= a.timestamp

\* C5 witness: the three results have all occurred, the failed one with the
\* largest timestamp.
C5_Witness ==
  /\ {a.res : a \in attempted} = {"submitted", "failed", "skipped"}
  /\ \E a \in attempted : a.res = "failed" /\ a.timestamp = lastProcessedTimestamp
                          /\ \A b \in attempted : b.res # "failed" => b.timestamp < a.timestamp

\* C6: a failed fetch ends its invocation there: the promise resolves, no order
\* is placed, lastProcessedTimestamp, the dedup set, the trading client and the
\* other invocations are as before, the interval timer stays set, and the next
\* firing of the timer is not held back.
C6_FetchFailureStep ==
  \A i \in Ticks :
    (tick[i].pc = "fetching" /\ tick'[i].res = "fetchError")
    => /\ tick'[i].pc = "resolved"
       /\ tick'[i].newTrades = <<>>
       /\ \A j \in Ticks \ {i} : tick'[j] = tick[j]
       /\ <<lastProcessedTimestamp, seen, calls, tradingClient, monitoringInterval, running>>'
            = <<lastProcessedTimestamp, seen, calls, tradingClient, monitoringInterval, running>>

C6_NextTickRuns ==
  ((\E i \in Ticks : tick[i].res = "fetchError") /\ ~exited /\ running = 0 /\ fired < MaxTicks)
  => ENABLED TimerFires

C6_FetchFailureHarmless == C6_NextTickRuns /\ [][C6_FetchFailureStep /\ C6_NextTickRuns']_vars

\* C6 witness: the first invocation's fetch failed, and the second one, fired
\* after it, fetched a page and placed an order.
C6_Witness ==
  /\ tick[1].res = "fetchError" /\ tick[1].pc = "resolved"
  /\ tick[2].pc = "posting" /\ CallsOf(2) # <<>>
  /\ CallsOf(1) = <<>>

\* C7: no invocation's promise rejects, and an invocation resolves only with
\* its loop finished: an error in the attempt of one trade leaves the later
\* trades of the loop to be dispatched.
C7_ErrorsStayInside ==
  \A i \in Ticks :
    /\ tick[i].pc # "rejected"
    /\ tick[i].pc = "resolved" => tick[i].newTrades = <<>>

\* C7 witness: in the only invocation so far the attempt of timestamp 1 failed
\* and the trade of timestamp 3 was submitted after it.
C7_Witness ==
  /\ fired = 1 /\ tick[1].pc = "resolved"
  /\ [timestamp |-> 1, res |-> "failed"] \in attempted
  /\ [timestamp |-> 3, res |-> "submitted"] \in attempted
  /\ \A a \in attempted : a.timestamp = 1 => a.res = "failed"

\* C8: a trade kept by the novelty check leads to at most one invocation of
\* createAndPostOrder: no two invocations are for the same key kept in the same
\* epoch, whether the first one failed or not.
C8_NoRetry ==
  \A a, b \in 1..Len(calls) :
    a # b => <<calls[a].key, calls[a].epoch>> # <<calls[b].key, calls[b].epoch>>

\* C8 witness: the only trade ever kept is 0xa1, its submission failed, the feed
\* returned it again afterwards, and createAndPostOrder was invoked once.
C8_Witness ==
  /\ accepted = {<<"0xa1", 0>>} /\ rejected = {<<"0xa1", 0>>}
  /\ attempted = {[timestamp |-> 1, res |-> "failed"]}
  /\ Len(calls) = 1
  /\ \A i \in Ticks : tick[i].pc = "resolved"

\* C9 (as claimed): every order handed to createAndPostOrder has a token
\* identifier of at least 10 characters, a price strictly between 0 and 1 and a
\* strictly positive size.
C9_OnlyValidOrdersPosted ==
  \A n \in 1..Len(calls) :
    /\ Len(calls[n].tokenID) >= MinTokenLen
    /\ ~calls[n].price.nan /\ 0 < calls[n].price.v /\ calls[n].price.v < ONE
    /\ ~calls[n].size.nan /\ 0 < calls[n].size.v

\* C10: the dedup set never holds more than MAX_SEEN keys; it changes only by
\* the insert of a key it does not hold, and the insert that would make it hold
\* MAX_SEEN + 1 keys leaves it empty.
C10_SeenBounded == Cardinality(seen) <= MAX_SEEN

C10_InsertStep ==
  seen' # seen
  => \E i \in Ticks :
       /\ running = i /\ tick[i].pc = "filter" /\ tick[i].cand # <<>>
       /\ LET key == tradeKey(Head(tick[i].cand)) IN
          /\ key \notin seen
          /\ seen' = IF Cardinality(seen) + 1 > MAX_SEEN THEN {} ELSE seen \cup {key}

C10_SeenSetBound == C10_SeenBounded /\ [][C10_InsertStep /\ C10_SeenBounded']_vars

\* C10 witness: the set held MAX_SEEN keys, one more was inserted, and the set
\* is empty.
C10_Witness ==
  /\ clears = 1 /\ seen = {}
  /\ Cardinality(accepted) = MAX_SEEN + 1

\* C11: the filtering rule.  While a page is filtered the trades still to be
\* looked at are the last ones of the page's trades whose timestamp is at least
\* lastProcessedTimestamp: a trade at the mark is one of them, a trade below
\* the mark never is, whatever the dedup set holds.  The filter callback keeps
\* the trade it looks at exactly when its key is not in the dedup set, and
\* inserts no other key.  Every trade waiting for dispatch and every order
\* placed is for a trade the filter kept.
C11_Window ==
  \A i \in Ticks :
    tick[i].pc = "filter"
    => LET InWindow(t) == t.timestamp >= lastProcessedTimestamp
           w == SelectSeq(tick[i].trades, InWindow)
       IN  /\ Len(tick[i].cand) <= Len(w)
           /\ tick[i].cand = SubSeq(w, Len(w) - Len(tick[i].cand) + 1, Len(w))

C11_Kept ==
  /\ \A i \in Ticks : \A n \in 1..Len(tick[i].newTrades) :
       <<tradeKey(tick[i].newTrades[n].t), tick[i].newTrades[n].epoch>> \in accepted
  /\ \A n \in 1..Len(calls) : <<calls[n].key, calls[n].epoch>> \in accepted

C11_Step ==
  IF \E i \in Ticks : running = i /\ tick[i].pc = "filter" /\ tick[i].cand # <<>>
  THEN LET i == running
           t == Head(tick[i].cand)
           key == tradeKey(t)
       IN  /\ t.timestamp >= lastProcessedTimestamp
           /\ lastProcessedTimestamp' = lastProcessedTimestamp
           /\ IF key \in seen
              THEN /\ tick'[i].newTrades = tick[i].newTrades
                   /\ seen' = seen /\ accepted' = accepted
              ELSE /\ tick'[i].newTrades = Append(tick[i].newTrades, [t |-> t, epoch |-> clears])
                   /\ seen' \in {seen \cup {key}, {}}
                   /\ accepted' = accepted \cup {<<key, clears>>}
  ELSE seen' = seen /\ accepted' = accepted

C11_FilteringRule ==
  C11_Window /\ C11_Kept /\ [][C11_Step /\ C11_Window' /\ C11_Kept']_vars

\* C11 witness: lastProcessedTimestamp is 5; the page held 0xa1, of timestamp
\* 1, and a trade of timestamp 5 with a new key; the dedup set was cleared on
\* the way; the trade of timestamp 5 alone is kept and 0xa1 never was.
C11_Witness ==
  \E i \in Ticks :
    /\ tick[i].pc = "filter" /\ tick[i].cand = <<>>
    /\ lastProcessedTimestamp = 5 /\ clears = 1
    /\ Len(tick[i].trades) = 2
    /\ tick[i].trades[1].orderId = "0xa1" /\ tick[i].trades[2].timestamp = 5
    /\ Len(tick[i].newTrades) = 1 /\ tick[i].newTrades[1].t = tick[i].trades[2]
    /\ \A e \in accepted : e[1] # "0xa1"
    /\ "0xa1" \notin seen

\* C12: within one invocation at most one createAndPostOrder call is unsettled
\* at any time, and whenever the attempt of a trade starts, is waiting for the
\* trading client or is over, none is.
C12_SequentialDispatch ==
  \A i \in Ticks :
    /\ tick[i].inflight <= 1
    /\ tick[i].pc \in {"exec", "auth", "advance"} => tick[i].inflight = 0
    /\ tick[i].inflight = 1 => tick[i].pc = "posting"

\* C12 witness: the second order of an invocation is in flight, the attempt of
\* the first trade being over.
C12_Witness ==
  \E i \in Ticks :
    /\ tick[i].pc = "posting" /\ tick[i].inflight = 1
    /\ Len(CallsOf(i)) = 2
    /\ \E a \in attempted : a.timestamp = CallsOf(i)[1].timestamp

\* C13 (as claimed): the size handed to createAndPostOrder is
\* min(size * riskPercentage / 100, maxPositionSize), a trade whose computed
\* size is <= 0 is skipped, and so every order has 0 < size <= maxPositionSize;
\* (100, 2, 1000) gives 2 and (100000, 2, 1000) gives 1000.
C13_SizeScaling ==
  /\ CappedSize(Num(10000), DefaultConfig) = Num(200)
  /\ CappedSize(Num(10000000), DefaultConfig) = Num(100000)
  /\ (fn.op = "copy" /\ fn.done)
     => LET o == fn.out[1]
            cap == config.maxPositionSize * 100
        IN  /\ o.kind = "submit"
               => /\ ~o.size.nan /\ 0 < o.size.v /\ o.size.v <= cap
                  /\ ~fn.a.size.nan
                  /\ LET scaled == (fn.a.size.v * config.riskPercentage) \div 100
                     IN  o.size.v = IF scaled <= cap THEN scaled ELSE cap
            /\ (~o.size.nan /\ o.size.v <= 0) => o.kind = "skip"

\* C14: adjustPriceForSlippage gives base * (1 + tolerance / 100) for a BUY
\* and max(0, base * (1 - tolerance / 100)) for a SELL; for a base and a
\* tolerance that are not negative a BUY result is not below the base, a SELL
\* result is not above it and not negative; 0.50 gives 0.5025 and 0.4975 at
\* 0.5 percent, and a SELL of 0.001 at 100 percent gives 0.
C14_PriceAdjustment ==
  /\ adjustPriceForSlippage(Num(500000), "BUY", DefaultConfig) = Num(502500)
  /\ adjustPriceForSlippage(Num(500000), "SELL", DefaultConfig) = Num(497500)
  /\ (fn.op = "copy" /\ fn.done /\ ~fn.a.price.nan)
     => LET base == fn.a.price.v
            tol == config.slippageTolerance
            \* every base is a whole number of thousandths
            up == (base \div 1000) * (1000 + tol)
            down == (base \div 1000) * (1000 - tol)
            out == fn.out[2]
        IN  /\ ~out.nan
            /\ fn.a.side = "BUY" => out.v = up /\ out.v >= base
            /\ fn.a.side = "SELL" => /\ out.v = (IF down >= 0 THEN down ELSE 0)
                                      /\ out.v <= base /\ out.v >= 0

\* C14 witness: a SELL of 0.001 at a tolerance of 100 percent gave 0.
C14_Witness ==
  /\ fn.op = "copy" /\ fn.done
  /\ fn.a.price = Num(1000) /\ fn.a.side = "SELL" /\ config.slippageTolerance = 1000
  /\ fn.out[2] = Num(0)

\* C17: tradeKey is the transaction hash whenever there is one, so two trades
\* with the same hash have the same key whatever their other fields; two
\* trades without a hash have the same key exactly when market id, token id,
\* side, price, size and timestamp are all equal; and a trade with a hash and
\* one without never have the same key.
C17_KeyDerivation ==
  (fn.op = "key" /\ fn.done)
  => LET a == fn.a
         b == fn.b
         Composite(t) == <<t.marketId, t.tokenId, t.side, t.price, t.size, t.timestamp>>
     IN  /\ a.orderId # "" => fn.out[1] = a.orderId
         /\ (a.orderId # "" /\ b.orderId # "")
            => (fn.out[1] = fn.out[2]) = (a.orderId = b.orderId)
         /\ (a.orderId = "" /\ b.orderId = "")
            => (fn.out[1] = fn.out[2]) = (Composite(a) = Composite(b))
         /\ (a.orderId = "") # (b.orderId = "") => fn.out[1] # fn.out[2]

\* C17 witness: two trades with the same hash that differ in every other
\* field have the same key.
C17_Witness ==
  /\ fn.op = "key" /\ fn.done
  /\ fn.a.orderId = "0xa1" /\ fn.b.orderId = "0xa1"
  /\ fn.a.marketId # fn.b.marketId /\ fn.a.tokenId # fn.b.tokenId
  /\ fn.a.side # fn.b.side /\ fn.a.price # fn.b.price
  /\ fn.a.size # fn.b.size /\ fn.a.timestamp # fn.b.timestamp
  /\ fn.out[1] = fn.out[2]

\* C15: a trade whose token id is empty or shorter than 10 characters is
\* skipped: executeCopyTrade returns before placeOrder, nothing is thrown, no
\* order is ever placed for such a token id, and the loop goes on (an
\* invocation resolves only with its loop finished).
C15_InvalidTokenSkipped ==
  /\ \A id \in {"", "abc", "123456789"} :
       ExecuteCopyTradeDecision([tokenId |-> id, size |-> Num(5000)], config) = "skip"
  /\ \A n \in 1..Len(calls) : calls[n].tokenID # "" /\ Len(calls[n].tokenID) >= 10
  /\ \A i \in Ticks :
       /\ tick[i].pc # "rejected"
       /\ tick[i].pc = "resolved" => tick[i].newTrades = <<>>
       /\ (Dispatching(i) /\ (Current(i).t.tokenId = "" \/ Len(Current(i).t.tokenId) < 10))
          => /\ tick[i].pc \in {"exec", "advance"}
             /\ tick[i].inflight = 0
             /\ tick[i].pc = "advance" => tick[i].res = "skipped"

\* C15 witness: the trade with token id "abc" was skipped, no order was placed
\* and nothing failed, and the attempt of the next trade of the loop starts.
C15_Witness ==
  \E i \in Ticks :
    /\ tick[i].pc = "exec" /\ Len(Current(i).t.tokenId) >= 10
    /\ attempted = {[timestamp |-> 5, res |-> "skipped"]}
    /\ calls = <<>>

\* C16: with riskPercentage 10, maxPositionSize 100 and slippageTolerance 1,
\* one invocation over the page <<tx1, tx1, tx2>> ends with lastProcessedTimestamp
\* 101 and at most two orders placed; when no attempt failed they are exactly
\* tx1 as BUY, size 5, price 0.404 and then tx2 as SELL, size 100, price 0.594.
C16_EndToEnd ==
  (/\ config = ScenarioConfig /\ feed = <<Tx1, Tx1, Tx2>>
   /\ fired = 1 /\ tick[1].pc = "resolved" /\ tick[1].res # "fetchError")
  => /\ lastProcessedTimestamp = 101
     /\ Len(calls) <= 2
     /\ (\A a \in attempted : a.res # "failed")
        => /\ Len(calls) = 2
           /\ calls[1].key = "0xtx1" /\ calls[1].side = "BUY"
           /\ calls[1].size = Num(500) /\ calls[1].price = Num(404000)
           /\ calls[2].key = "0xtx2" /\ calls[2].side = "SELL"
           /\ calls[2].size = Num(10000) /\ calls[2].price = Num(594000)

\* C16 witness: the run of the scenario ended with both orders accepted by the
\* venue.
C16_Witness ==
  /\ config = ScenarioConfig /\ feed = <<Tx1, Tx1, Tx2>>
  /\ fired = 1 /\ tick[1].pc = "resolved"
  /\ attempted = {[timestamp |-> 100, res |-> "submitted"], [timestamp |-> 101, res |-> "submitted"]}
  /\ rejected # {}
  /\ Len(calls) = 2 /\ lastProcessedTimestamp = 101

\* C18 (as claimed): when stop() ends the process, no invocation of
\* monitorAndCopyTrades is left unfinished.
C18_StopLetsTickFinish ==
  exited => \A i \in Ticks : ~InProgress(i)

\* C19 (as claimed): once stop() of PolymarketCopyTradingBot has resolved, both
\* timers are cleared, isRunning is false and activeOrders is empty, and it
\* stays so whatever the cancellations and the invocations in flight did.
C19_StopCancelsEverything ==
  bot.stopPc = "done" =>
    /\ ~bot.monitoringInterval /\ ~bot.updateInterval /\ ~bot.isRunning
    /\ tradingEngine.activeOrders = {}

\* C20 (as claimed): after disconnect() no step schedules a reconnection and
\* no step opens a new socket.
C20_DisconnectIsFinal ==
  [][wsClient.disconnected =>
       /\ wsClient'.timers <= wsClient.timers
       /\ \A s \in Sockets :
            wsClient'.sockets[s] = "connecting" => wsClient.sockets[s] = "connecting"]_vars

\* C21: a socket that was open and closes, without close() having been called
\* on it, makes the client set one reconnect timeout (as long as fewer than
\* maxReconnectAttempts attempts were made); every timeout set is the k-th in
\* a row, k being the attempt counter after the step, and its delay is
\* 5 * 2^(k-1) seconds; a socket that opens sets the counter to 0.
C21_Step ==
  /\ \A s \in Sockets :
       (wsClient.sockets[s] = "open" /\ wsClient'.sockets[s] = "closed"
        /\ wsClient.reconnectAttempts < maxReconnectAttempts)
       => wsClient'.timers = wsClient.timers + 1
  /\ wsClient'.timers > wsClient.timers
       => /\ wsClient'.timers = wsClient.timers + 1
          /\ wsClient'.reconnectAttempts = wsClient.reconnectAttempts + 1
          /\ wsClient'.delay = 5 * 2^(wsClient'.reconnectAttempts - 1)
  /\ \A s \in Sockets :
       (wsClient.sockets[s] # "open" /\ wsClient'.sockets[s] = "open")
       => wsClient'.reconnectAttempts = 0

C21_ReconnectBackoff == [][C21_Step]_vars

\* C21 witness: the third attempt in a row has been scheduled, 20 seconds
\* ahead, after a socket had been open.
C21_Witness ==
  /\ wsClient.reconnectAttempts = 3 /\ wsClient.delay = 20 /\ wsClient.timers = 1
  /\ wsClient.sockets[1] = "closed" /\ bot.startPc = "done"

\* C22 (as claimed): no order is placed for a trade that was more than
\* tooOldTimestamp seconds old when it was fetched.
C22_OldTradesIgnored ==
  \A n \in 1..Len(calls) : StartedAt - calls[n].timestamp <= tooOldTimestamp

\* C23 (as claimed): an invocation gives up on a failed fetch only after the
\* request has been made again retryLimit times.
C23_FailedRequestsRetried ==
  \A i \in Ticks : tick[i].res = "fetchError" => tick[i].requests = 1 + retryLimit

\* The orders for `token` the venue has accepted, and the position they add up
\* to, in hundredths: the BUY sizes less the SELL sizes.
AcceptedOrders(token) ==
  { n \in 1..Len(calls) :
      /\ calls[n].tokenID = token
      /\ [timestamp |-> calls[n].timestamp, res |-> "submitted"] \in attempted }

RECURSIVE SizeOf(_)
SizeOf(S) ==
  IF S = {} THEN 0
  ELSE LET n == CHOOSE x \in S : TRUE
       IN (IF calls[n].side = "BUY" THEN calls[n].size.v ELSE 0 - calls[n].size.v)
          + SizeOf(S \ {n})

\* C24 (as claimed): the orders accepted for one asset never add up to more
\* than maxPositionSize.
C24_PositionBounded ==
  \A n \in 1..Len(calls) :
    SizeOf(AcceptedOrders(calls[n].tokenID)) <= config.maxPositionSize * 100

\* C25 (as claimed): every trade of a page getUserTrades has returned is well
\* formed: its side is BUY or SELL and its price and size are numbers.
C25_NoCorruptRecords ==
  \A i \in Ticks : \A n \in 1..Len(tick[i].trades) :
    /\ tick[i].trades[n].side \in {"BUY", "SELL"}
    /\ ~tick[i].trades[n].price.nan
    /\ ~tick[i].trades[n].size.nan

\* C26: an invocation whose axios.get was rejected made that one request and
\* ended with a fetch error, which no invocation whose request succeeded ends
\* with, an empty page included; the rejection changes neither the mark, the
\* dedup set, the rows consumed nor the orders placed.
C26_Outcome ==
  \A i \in Ticks :
    /\ tick[i].failed => (tick[i].requests = 1 /\ tick[i].res = "fetchError"
                          /\ tick[i].pc = "resolved")
    /\ tick[i].res = "fetchError" => tick[i].failed
    /\ tick[i].pc # "idle" => tick[i].requests = 1

C26_Step ==
  (\E i \in Ticks : ~tick[i].failed /\ tick'[i].failed)
  => UNCHANGED <<lastProcessedTimestamp, seen, fetched, calls, accepted, rejected>>

C27_GlobalChronologicalOrder ==
  \A a, b \in 1..Len(calls) : a < b => calls[a].timestamp <= calls[b].timestamp

\* The invocation i has just dispatched an entry whose insert cleared the
\* dedup set.
TriggerDispatched(i) ==
  tick[i].pc = "advance" /\ Current(i) \in tick[i].trigger

C28_OverflowStep ==
  \A i \in Ticks :
    (running = i /\ tick[i].pc = "filter" /\ tick[i].cand # <<>>
     /\ tradeKey(Head(tick[i].cand)) \notin seen /\ Cardinality(seen) + 1 > MAX_SEEN)
    => /\ seen' = {}
       /\ tick'[i].newTrades =
            Append(tick[i].newTrades, [t |-> Head(tick[i].cand), epoch |-> clears])
       /\ tick'[i].trigger = tick[i].trigger \cup {[t |-> Head(tick[i].cand), epoch |-> clears]}
       /\ clears' = clears + 1

C28_Queued ==
  \A i \in Ticks : \A e \in tick[i].trigger :
    /\ InProgress(i)
    /\ \/ \E n \in 1..Len(tick[i].newTrades) : tick[i].newTrades[n] = e
       \/ \E a \in attempted : a.timestamp = e.t.timestamp
    /\ <<tradeKey(e.t), e.epoch>> \in accepted

C28_Reaccepted ==
  \A i \in Ticks :
    (TriggerDispatched(i) /\ tradeKey(Current(i).t) \in seen)
    => \E a \in accepted : a[1] = tradeKey(Current(i).t) /\ a[2] > Current(i).epoch

C29_QueueStep ==
  \A i \in Ticks :
    (Dispatching(i) /\ tick'[i].newTrades # tick[i].newTrades)
    => /\ tick[i].pc = "advance"
       /\ tick'[i].newTrades = Tail(tick[i].newTrades)
       /\ [timestamp |-> Current(i).t.timestamp, res |-> tick[i].res] \in attempted'
       /\ tick[i].res \in {"submitted", "failed", "skipped"}

C29_EndsEmpty ==
  \A i \in Ticks : ~InProgress(i) => tick[i].newTrades = <<>>

C29_TickLiveness ==
  /\ C29_EndsEmpty
  /\ [][C29_QueueStep /\ C29_EndsEmpty']_vars
  /\ \A i \in Ticks : InProgress(i) ~> (~InProgress(i) \/ exited)

\* C29 witness: two invocations are over; between them three trades were kept
\* and each was attempted, one of them without success.
C29_Witness ==
  /\ fired = 2 /\ tick[1].pc = "resolved" /\ tick[2].pc = "resolved" /\ ~exited
  /\ Cardinality(accepted) = 3
  /\ {a.timestamp : a \in attempted} = {1, 3, 5}
  /\ \E a \in attempted : a.res = "failed"

\* The keys invocation i accepted as new: those of the trades it still holds
\* in newTrades, and those of the orders it has placed.
QueuedKeys(i) == {tradeKey(tick[i].newTrades[n].t) : n \in 1..Len(tick[i].newTrades)}
AcceptedBy(i) == QueuedKeys(i) \cup {calls[n].key : n \in {m \in 1..Len(calls) : calls[m].tick = i}}

\* C30: as long as the dedup set has never been cleared, every key is accepted
\* as new by at most one invocation, overlapping or not, is held once in that
\* invocation's newTrades, is in the set, and no two orders are placed for it.
\* A filter callback runs from its test to its insert with no other
\* invocation in between.
C30_KeptOnceOverall ==
  clears = 0
  => /\ \A i, j \in Ticks : i # j => AcceptedBy(i) \cap AcceptedBy(j) = {}
     /\ \A i \in Ticks : Cardinality(QueuedKeys(i)) = Len(tick[i].newTrades)
     /\ \A i \in Ticks : AcceptedBy(i) \subseteq seen
     /\ \A a, b \in 1..Len(calls) : a # b => calls[a].key # calls[b].key

C30_AtomicCheck ==
  \A i \in Ticks :
    (tick[i].pc = "filter" /\ tick'[i].cand # tick[i].cand)
    => /\ running = i /\ running' = i
       /\ \A j \in Ticks \ {i} : tick'[j] = tick[j]
       /\ LET key == tradeKey(Head(tick[i].cand)) IN
          clears' = 0 => (key \in seen' /\ (key \in seen <=> tick'[i].newTrades = tick[i].newTrades))

C30_DedupUnderOverlap ==
  C30_KeptOnceOverall /\ [][C30_AtomicCheck /\ C30_KeptOnceOverall']_vars

\* C30 witness: the first invocation kept a trade and waits for its order to
\* be accepted; the second one, started meanwhile, fetched the same trade and
\* has dropped it.
C30_Witness ==
  /\ clears = 0 /\ tick[1].pc = "posting" /\ Len(calls) = 1
  /\ tick[2].pc = "filter" /\ tick[2].cand = <<>> /\ tick[2].newTrades = <<>>
  /\ Len(tick[2].trades) = 1 /\ tradeKey(tick[2].trades[1]) = calls[1].key
  /\ tradeKey(Current(1).t) = calls[1].key

\* C31: a source trade is passed to executeCopyTrade by at most one
\* invocation of TradingEngine.monitorAndCopyTrades, however many polls
\* return it.
C31_CopiedAtMostOnce ==
  \A a, b \in tradingEngine.executed : a.trade = b.trade => a.poll = b.poll

\* C32: lastSyncTime changes only in the step that ends an invocation of
\* TradingEngine.monitorAndCopyTrades which found a trade newer than it, once
\* its loop is over; it becomes the largest timestamp of the page that
\* invocation fetched, and that is greater than the value it had.
C32_Step ==
  LET old == tradingEngine.lastSyncTime
      new == tradingEngine'.lastSyncTime
  IN new # old
     => /\ new > old
        /\ \E i \in Polls :
             /\ tradingEngine.polls[i].pc \in {"fetching", "midprice", "placing"}
             /\ tradingEngine'.polls[i].pc = "done"
             /\ tradingEngine.polls[i].pc # "fetching" => new = tradingEngine.polls[i].top

C32_HighWaterMark == [][C32_Step]_vars

\* The size limits of the engine, in hundredths.
C33_InRange(size) == minOrderSize <= size /\ size <= config.maxPositionSize * 100

\* C33: every order TradingEngine.executeCopyTrade places has a size between
\* minOrderSize and maxOrderSize, and that size is the trade's size times
\* riskPercentage / 100 rounded to the nearest hundredth; a trade whose
\* rounded size is outside the limits gets no order, and the step in which it
\* is passed to executeCopyTrade adds no order for it to activeOrders.
C33_Orders ==
  \A o \in tradingEngine.ordered :
    /\ C33_InRange(o.size)
    /\ 100 * o.size <= o.trade.size * config.riskPercentage + 50
    /\ o.trade.size * config.riskPercentage + 50 < 100 * o.size + 100

C33_Placed == Cardinality(tradingEngine.activeOrders) <= tradingEngine.placed

C33_Step ==
  /\ tradingEngine'.placed > tradingEngine.placed
     => \E i \in Polls :
          /\ tradingEngine.polls[i].pc = "placing"
          /\ tradingEngine'.placed = tradingEngine.placed + 1
          /\ \E o \in tradingEngine.ordered : o.trade = Head(tradingEngine.polls[i].queue)
  /\ \A i \in Polls :
       tradingEngine'.polls[i].pc \in {"midprice", "placing"}
       => C33_InRange(calculateOrderSize(Head(tradingEngine'.polls[i].queue).size, config))

C34_AttemptsBounded == wsClient.reconnectAttempts <= maxReconnectAttempts

C34_Step ==
  wsClient'.timers > wsClient.timers
  => /\ wsClient.reconnectAttempts < maxReconnectAttempts
     /\ wsClient'.timers = wsClient.timers + 1
     /\ wsClient'.reconnectAttempts = wsClient.reconnectAttempts + 1

C34_ReconnectionBounded ==
  C34_AttemptsBounded /\ [][C34_Step /\ C34_AttemptsBounded']_vars

\* C34 witness: ten reconnect attempts in a row ended without an open, the
\* socket of the last one is closed, and no timeout and no socket is left.
C34_Witness ==
  /\ wsClient.reconnectAttempts = maxReconnectAttempts
  /\ wsClient.timers = 0 /\ ~wsClient.isConnecting
  /\ wsClient.ws # 0 /\ wsClient.sockets[wsClient.ws] = "closed"
  /\ \A s \in Sockets : wsClient.sockets[s] \in {"closed", "unused"}
  /\ wsClient.delay = reconnectDelay * 2^(maxReconnectAttempts - 1)

\* C35: at most one monitoring timer and at most one position-update timer
\* are set at any time, a second call of start() sets none, and once stop()
\* is over none is left.
C35_SingleTimer ==
  /\ bot.monitoringTimers <= 1 /\ bot.updateTimers <= 1
  /\ bot.stopPc = "done" => (bot.monitoringTimers = 0 /\ bot.updateTimers = 0)

\* C36: a call of start() goes past `await this.wsClient.connect()`, that is
\* the promise of connect() resolved, only with the client's socket open.
C36_Step ==
  (bot'.monitoringTimers > bot.monitoringTimers)
  => (wsClient'.ws # 0 /\ wsClient'.sockets[wsClient'.ws] = "open")

C36_ResolvesOnlyWhenOpen == [][C36_Step]_vars

\* C37: every connect() call that created a socket sees its promise resolved
\* or rejected; the step that settles it leaves isConnecting false; and
\* isConnecting is set only while such a promise is pending.
C37_Step ==
  \A s \in Sockets :
    (s \in wsClient.pending /\ s \notin wsClient'.pending)
    => /\ ~wsClient'.isConnecting
       /\ wsClient'.sockets[s] \in {"open", "closed", "late", "aborting"}

C37_FlagNotStale == wsClient.isConnecting => wsClient.pending # {}

C38_BoundedErrorLog ==
  LET n == bot.errorCalls
      len == Len(bot.errors)
  IN /\ len <= maxErrorLog
     /\ len = (IF n < maxErrorLog THEN n ELSE maxErrorLog)
     /\ \A k \in 1..len : bot.errors[k] = n - len + k

\* C38 witness: 120 calls; the log holds the messages of calls 21 to 120.
C38_Witness ==
  /\ bot.errorCalls = 120 /\ Len(bot.errors) = 100
  /\ bot.errors[1] = 21 /\ bot.errors[100] = 120

\* Invocation i filters a page in which nothing is new: it has kept no trade,
\* and every trade of the page is below the mark or has its key in the set.
C39_NothingNew(i) ==
  /\ running = i /\ tick[i].pc = "filter" /\ tick[i].newTrades = <<>>
  /\ \A n \in 1..Len(tick[i].trades) :
       \/ tick[i].trades[n].timestamp < lastProcessedTimestamp
       \/ tradeKey(tick[i].trades[n]) \in seen

\* C39: an invocation whose page is empty, or holds only trades below the mark
\* or with their key in the dedup set, keeps no trade and ends without an
\* order, and none of its steps changes the mark, the set or the orders placed.
C39_Step ==
  \A i \in Ticks :
    /\ C39_NothingNew(i)
       => /\ tick'[i].newTrades = <<>> /\ tick'[i].pc \in {"filter", "resolved"}
          /\ <<lastProcessedTimestamp, seen, calls>>' = <<lastProcessedTimestamp, seen, calls>>
          /\ tick'[i].pc = "filter" => C39_NothingNew(i)'
    /\ (tick[i].pc = "fetching" /\ tick'[i].pc = "resolved" /\ ~tick'[i].failed)
       => /\ tick'[i].trades = <<>> /\ tick'[i].newTrades = <<>>
          /\ <<lastProcessedTimestamp, seen, calls>>' = <<lastProcessedTimestamp, seen, calls>>

C39_QuietTick == [][C39_Step]_vars

\* C39 witness: the first invocation copied the trade of timestamp 3; the
\* second one fetched that trade again together with one of timestamp 1, went
\* through both, kept none and placed no order; the mark and the set are as
\* the first invocation left them.
C39_Witness ==
  /\ lastProcessedTimestamp = 3 /\ Len(calls) = 1 /\ seen = {calls[1].key}
  /\ tick[1].pc = "resolved"
  /\ running = 2 /\ tick[2].pc = "filter" /\ tick[2].cand = <<>> /\ tick[2].newTrades = <<>>
  /\ Len(tick[2].trades) = 2
  /\ \E a, b \in 1..2 :
       /\ tick[2].trades[a].timestamp = 1
       /\ tick[2].trades[b].timestamp = 3 /\ tradeKey(tick[2].trades[b]) = calls[1].key

====
